---------------------------- MODULE Spec2Model ----------------------------
(***************************************************************************)
(* Safar-e-GIKI WhatsApp booking bot: the conversation state machine of    *)
(* message_handler.py over the in-memory session store of                  *)
(* session_manager.py, the booking / seat-inventory operations of          *)
(* database.py and the admin booking operations of admin_handler.py.       *)
(*                                                                         *)
(* A handler is an asyncio coroutine: it runs without interruption up to   *)
(* an `await send_...`; what it does to the session after such an await    *)
(* is a continuation that resumes later, with other handlers in between.   *)
(* Handlers whose session writes all precede their first await are one     *)
(* action.  The Supabase client is synchronous, so the database calls of   *)
(* one handler segment are not interleaved with other segments.            *)
(***************************************************************************)
EXTENDS Integers, Sequences, FiniteSets, Bags, TLC

VARIABLES
    user_sessions,    \* session_manager.user_sessions: phone -> session dict
    bookings,         \* table "bookings": booking_id -> row
    seats_available,  \* table "available_dates", column seats_available
    next_id,          \* number of booking ids generated so far
    pending,          \* suspended handlers: phone -> bag of continuations
    deducted,         \* booking_id -> seats create_booking took off the counter
    restored,         \* booking_id -> times delete_booking raised the counter
    now               \* the wall clock, in minutes

vars == <<user_sessions, bookings, seats_available, next_id, pending,
          deducted, restored, now>>

-----------------------------------------------------------------------------
(* Bounds of the model *)

\* booking ids that may be generated in one behaviour
MaxBookings == 2

\* minutes the clock may reach where it runs
MaxTime == 62

\* messages in one webhook delivery
MaxDelivery == 2

-----------------------------------------------------------------------------
(* Data: the users and the rows of "available_dates" joined with "buses" *)

Users == {"u1", "u2"}

Trips == {"t1", "t2"}

\* a date id that is in no row of available_dates
NoTrip == "t0"

Buses ==
    [t \in Trips |->
        IF t = "t1"
        THEN [id |-> "b1", route |-> "GIKI-Multan", total_seats |-> 2,
              price |-> 3500]
        ELSE [id |-> "b2", route |-> "Multan-GIKI", total_seats |-> 1,
              price |-> 4000]]

total_seats(t) == Buses[t].total_seats

AllSeats(t) == 1 .. total_seats(t)

-----------------------------------------------------------------------------
(* Text: a message body is a sequence of characters *)

Digits == {"0", "1", "2", "3", "4", "5", "6", "7", "8", "9"}

DigitVal(c) ==
    CASE c = "0" -> 0 [] c = "1" -> 1 [] c = "2" -> 2 [] c = "3" -> 3
      [] c = "4" -> 4 [] c = "5" -> 5 [] c = "6" -> 6 [] c = "7" -> 7
      [] c = "8" -> 8 [] c = "9" -> 9

TxtHi == <<"H", "i">>
TxtHey == <<"H", "e", "y">>
TxtAl == <<"A", "l">>
TxtAliKhan == <<"A", "l", "i", " ", "K", "h", "a", "n">>
TxtReg == <<"2", "0", "2", "1", "2", "3", "4">>
TxtPhoneDashed == <<"0", "3", "0", "0", "-", "1", "2", "3", "4", "5", "6", "7">>
TxtSeat1 == <<"1">>
TxtSeat2 == <<"2">>
TxtSeat3 == <<"3">>

\* str.lower(), on the letters the inputs use
LowerChar(c) ==
    CASE c = "H" -> "h" [] c = "A" -> "a" [] c = "K" -> "k" [] OTHER -> c

Lower(s) == [i \in 1 .. Len(s) |-> LowerChar(s[i])]

\* ["hi", "hello", "hey", "start", "menu", "home"]
ResetKeywords ==
    {<<"h", "i">>, <<"h", "e", "l", "l", "o">>, <<"h", "e", "y">>,
     <<"s", "t", "a", "r", "t">>, <<"m", "e", "n", "u">>,
     <<"h", "o", "m", "e">>}

\* str.replace("-", "").replace(" ", "")
RECURSIVE StripDashSpace(_)
StripDashSpace(s) ==
    IF s = << >> THEN << >>
    ELSE IF Head(s) \in {"-", " "} THEN StripDashSpace(Tail(s))
    ELSE <<Head(s)>> \o StripDashSpace(Tail(s))

\* re.match(r"^202\d{4}$", s)
MatchesRegNumber(s) ==
    /\ Len(s) = 7
    /\ s[1] = "2" /\ s[2] = "0" /\ s[3] = "2"
    /\ \A i \in 4 .. 7 : s[i] \in Digits

\* re.match(r"^03\d{9}$", s)
MatchesPhone(s) ==
    /\ Len(s) = 11
    /\ s[1] = "0" /\ s[2] = "3"
    /\ \A i \in 3 .. 11 : s[i] \in Digits

\* int(seat_text.strip()) succeeds
IsInt(s) == Len(s) > 0 /\ \A i \in 1 .. Len(s) : s[i] \in Digits

RECURSIVE ParseInt(_)
ParseInt(s) ==
    IF s = << >> THEN 0
    ELSE 10 * ParseInt(SubSeq(s, 1, Len(s) - 1)) + DigitVal(s[Len(s)])

-----------------------------------------------------------------------------
(* Dictionaries: a Python dict is a function on the keys it holds *)

EmptyDict == [k \in {} |-> 0]

Put(d, k, v) == [x \in DOMAIN d \cup {k} |-> IF x = k THEN v ELSE d[x]]

\* d.get(k, default)
Get(d, k, default) == IF k \in DOMAIN d THEN d[k] ELSE default

Has(d, k) == k \in DOMAIN d

-----------------------------------------------------------------------------
(* session_manager.py *)

SESSION_EXPIRY_MINUTES == 30

IDLE == "idle"
AWAITING_ROUTE == "awaiting_route"
AWAITING_DATE == "awaiting_date"
AWAITING_NAME == "awaiting_name"
AWAITING_REG_NUMBER == "awaiting_reg_number"
AWAITING_PHONE == "awaiting_phone"
AWAITING_SEAT == "awaiting_seat"
AWAITING_PAYMENT_CONFIRMATION == "awaiting_payment_confirmation"
AWAITING_BOOKING_PHONE == "awaiting_booking_phone"

ConversationState ==
    {IDLE, AWAITING_ROUTE, AWAITING_DATE, AWAITING_NAME, AWAITING_REG_NUMBER,
     AWAITING_PHONE, AWAITING_SEAT, AWAITING_PAYMENT_CONFIRMATION,
     AWAITING_BOOKING_PHONE}

create_new_session(t) ==
    [state |-> IDLE, booking_data |-> EmptyDict, last_activity |-> t]

\* get_session with the age test left out
get_session_never_expires(us, phone, t) ==
    LET kept == IF phone \in DOMAIN us THEN us[phone] ELSE create_new_session(t)
    IN  Put(us, phone, [kept EXCEPT !.last_activity = t])

\* get_session with >= in the age test
get_session_expires_at_limit(us, phone, t) ==
    LET kept ==
            IF phone \in DOMAIN us
            THEN IF t - us[phone].last_activity >= SESSION_EXPIRY_MINUTES
                 THEN create_new_session(t)
                 ELSE us[phone]
            ELSE create_new_session(t)
    IN  Put(us, phone, [kept EXCEPT !.last_activity = t])

\* get_session that replaces every session past its age, not only the caller's
get_session_sweeps(us, phone, t) ==
    LET swept ==
            [p \in DOMAIN us |->
                IF t - us[p].last_activity > SESSION_EXPIRY_MINUTES
                THEN create_new_session(t)
                ELSE us[p]]
        kept == IF phone \in DOMAIN us THEN swept[phone] ELSE create_new_session(t)
    IN  Put(swept, phone, [kept EXCEPT !.last_activity = t])

\* the session get_session leaves in user_sessions[phone] at time t
get_session(us, phone, t) ==
    LET kept ==
            IF phone \in DOMAIN us
            THEN IF t - us[phone].last_activity > SESSION_EXPIRY_MINUTES
                 THEN create_new_session(t)
                 ELSE us[phone]
            ELSE create_new_session(t)
    IN  Put(us, phone, [kept EXCEPT !.last_activity = t])

set_state(us, phone, state, t) ==
    [get_session(us, phone, t) EXCEPT ![phone].state = state]

\* the value get_state returns; the session it touches is get_session's
get_state(us, phone, t) == get_session(us, phone, t)[phone].state

update_booking_data(us, phone, key, value, t) ==
    LET s == get_session(us, phone, t)
    IN  [s EXCEPT ![phone].booking_data = Put(s[phone].booking_data, key, value)]

get_booking_data(us, phone, t) == get_session(us, phone, t)[phone].booking_data

clear_booking_data(us, phone, t) ==
    [get_session(us, phone, t) EXCEPT ![phone].booking_data = EmptyDict,
                                      ![phone].state = IDLE]

\* reset_session that goes back to IDLE and keeps the draft
reset_session_keeps_draft(us, phone, t) ==
    Put(us, phone,
        [create_new_session(t) EXCEPT
            !.booking_data = IF phone \in DOMAIN us
                             THEN us[phone].booking_data ELSE EmptyDict])

reset_session(us, phone, t) == Put(us, phone, create_new_session(t))

-----------------------------------------------------------------------------
(* database.py: reads *)

\* get_date_info(date_id) finds a row
get_date_info(date_id) == date_id \in Trips

\* the query without .eq("date_id", date_id)
ActiveBookingsAnyDate(bk, date_id) ==
    {b \in DOMAIN bk : bk[b].booking_status /= "cancelled"}

\* the rows of bookings on date_id whose booking_status is not "cancelled"
ActiveBookings(bk, date_id) ==
    {b \in DOMAIN bk :
        bk[b].date_id = date_id /\ bk[b].booking_status /= "cancelled"}

booked_seats(bk, date_id) ==
    UNION {bk[b].selected_seats : b \in ActiveBookings(bk, date_id)}

\* get_available_seats without .neq("booking_status", "cancelled")
get_available_seats_any_status(bk, date_id) ==
    IF ~get_date_info(date_id) THEN {}
    ELSE AllSeats(date_id)
           \ UNION {bk[b].selected_seats :
                      b \in {x \in DOMAIN bk : bk[x].date_id = date_id}}

get_available_seats(bk, date_id) ==
    IF ~get_date_info(date_id) THEN {}
    ELSE AllSeats(date_id) \ booked_seats(bk, date_id)

\* dates of the route that still show a positive counter
get_available_dates_by_route(sa, route) ==
    {t \in Trips : Buses[t].route = route /\ sa[t] > 0}

get_booking_by_phone(bk, phone) ==
    {b \in DOMAIN bk : Get(bk[b], "passenger_phone", << >>) = phone}

-----------------------------------------------------------------------------
(* Stored procedure decrement_seats(row_id, x) of the database: it is      *)
(* called by create_booking and delete_booking, its body is not part of    *)
(* the Python sources.  It adjusts the counter by -x; an adjustment that   *)
(* would leave 0 .. total_seats is clamped, or rejected with an error.     *)

Clamp(v, lo, hi) == IF v < lo THEN lo ELSE IF v > hi THEN hi ELSE v

RpcOk(value) == [raised |-> FALSE, value |-> value]
RpcError(cur) == [raised |-> TRUE, value |-> cur]

\* the outcomes of one call: did it raise, and the counter it leaves
decrement_seats(cur, x, total) ==
    LET v == cur - x
    IN  IF v >= 0 /\ v <= total
        THEN {RpcOk(v)}
        ELSE {RpcOk(Clamp(v, 0, total)), RpcError(cur)}

\* supabase.rpc(...).execute(): the call can also fail before it runs
rpc_execute(cur, x, total, storage_fails) ==
    decrement_seats(cur, x, total)
      \cup (IF storage_fails THEN {RpcError(cur)} ELSE {})

-----------------------------------------------------------------------------
(* Suspended handlers *)

NoneId == "none"

Cont(kind, amount) == [kind |-> kind, total_amount |-> amount]

ContClear == Cont("clear_booking_data", 0)
ContSetIdle == Cont("set_state_idle", 0)
ContConfirmationShown(amount) == Cont("confirmation_shown", amount)

\* a handler segment: the sessions it leaves and the continuations it suspends
Segment(us, conts) == [us |-> us, conts |-> conts]

\* the segment has run: the sessions are written, the continuations wait
Commit(phone, seg) ==
    /\ user_sessions' = seg.us
    /\ pending' = [pending EXCEPT ![phone] = @ (+) SetToBag(seg.conts)]

-----------------------------------------------------------------------------
(* message_handler.py: what each handler does to the session up to its     *)
(* first await that is followed by a session write                         *)

show_available_dates(us, sa, phone, route, t) ==
    IF get_available_dates_by_route(sa, route) = {}
    THEN Segment(us, {})
    ELSE Segment(set_state(us, phone, AWAITING_DATE, t), {})

\* the route buttons: route, from_location and to_location are set together
handle_route_button(us, sa, phone, route, t) ==
    show_available_dates(update_booking_data(us, phone, "route", route, t),
                         sa, phone, route, t)

\* date_id, travel_date, bus_id, bus_name and price are set together
handle_date_selection(us, phone, date_id, t) ==
    IF ~get_date_info(date_id)
    THEN Segment(us, {})
    ELSE LET us1 == update_booking_data(us, phone, "date_id", date_id, t)
             us2 == update_booking_data(us1, phone, "bus_id",
                                        Buses[date_id].id, t)
             us3 == update_booking_data(us2, phone, "price",
                                        Buses[date_id].price, t)
         IN  Segment(set_state(us3, phone, AWAITING_NAME, t), {})

handle_name_input(us, phone, name, t) ==
    IF Len(name) < 3
    THEN Segment(us, {})
    ELSE Segment(set_state(
                    update_booking_data(us, phone, "passenger_name", name, t),
                    phone, AWAITING_REG_NUMBER, t), {})

\* handle_reg_number_input storing the text before it is validated
handle_reg_number_input_stores_first(us, phone, reg_number, t) ==
    LET us1 == update_booking_data(us, phone, "student_id", reg_number, t)
    IN  IF ~MatchesRegNumber(reg_number)
        THEN Segment(us1, {})
        ELSE Segment(set_state(us1, phone, AWAITING_PHONE, t), {})

handle_reg_number_input(us, phone, reg_number, t) ==
    IF ~MatchesRegNumber(reg_number)
    THEN Segment(us, {})
    ELSE Segment(set_state(
                    update_booking_data(us, phone, "student_id", reg_number, t),
                    phone, AWAITING_PHONE, t), {})

\* all seats booked: clear_booking_data follows the apology message
\* show_available_seats that sends the seat prompt without set_state
show_available_seats_without_state(us, bk, phone, t) ==
    LET booking_data == get_booking_data(us, phone, t)
        date_id == Get(booking_data, "date_id", NoneId)
        us1 == get_session(us, phone, t)
    IN  IF get_available_seats(bk, date_id) = {}
        THEN Segment(us1, {ContClear})
        ELSE Segment(us1, {})

show_available_seats(us, bk, phone, t) ==
    LET booking_data == get_booking_data(us, phone, t)
        date_id == Get(booking_data, "date_id", NoneId)
        us1 == get_session(us, phone, t)
    IN  IF get_available_seats(bk, date_id) = {}
        THEN Segment(us1, {ContClear})
        ELSE Segment(set_state(us1, phone, AWAITING_SEAT, t), {})

\* handle_phone_input storing the text as it was typed
handle_phone_input_stores_raw(us, bk, phone, phone_number, t) ==
    LET clean_phone == StripDashSpace(phone_number)
    IN  IF ~MatchesPhone(clean_phone)
        THEN Segment(us, {})
        ELSE show_available_seats(
                update_booking_data(us, phone, "passenger_phone", phone_number, t),
                bk, phone, t)

handle_phone_input(us, bk, phone, phone_number, t) ==
    LET clean_phone == StripDashSpace(phone_number)
    IN  IF ~MatchesPhone(clean_phone)
        THEN Segment(us, {})
        ELSE show_available_seats(
                update_booking_data(us, phone, "passenger_phone", clean_phone, t),
                bk, phone, t)

\* the summary is sent first; set_state and total_amount follow that await
show_booking_confirmation(us, phone, t) ==
    LET booking_data == get_booking_data(us, phone, t)
        price == Get(booking_data, "price", 0)
        seats == Get(booking_data, "selected_seats", {})
        total_amount == price * Cardinality(seats)
    IN  Segment(get_session(us, phone, t), {ContConfirmationShown(total_amount)})

\* handle_seat_selection taking every seat number of the bus
handle_seat_selection_any_seat(us, bk, phone, seat_number, t) ==
    LET booking_data == get_booking_data(us, phone, t)
        date_id == Get(booking_data, "date_id", NoneId)
        us1 == get_session(us, phone, t)
    IN  IF ~get_date_info(date_id) \/ seat_number \notin AllSeats(date_id)
        THEN Segment(us1, {})
        ELSE show_booking_confirmation(
                update_booking_data(us1, phone, "selected_seats",
                                    {seat_number}, t),
                phone, t)

handle_seat_selection(us, bk, phone, seat_number, t) ==
    LET booking_data == get_booking_data(us, phone, t)
        date_id == Get(booking_data, "date_id", NoneId)
        us1 == get_session(us, phone, t)
    IN  IF seat_number \notin get_available_seats(bk, date_id)
        THEN Segment(us1, {})
        ELSE show_booking_confirmation(
                update_booking_data(us1, phone, "selected_seats",
                                    {seat_number}, t),
                phone, t)

handle_seat_input(us, bk, phone, seat_text, t) ==
    IF ~IsInt(seat_text)
    THEN Segment(us, {})
    ELSE handle_seat_selection(us, bk, phone, ParseInt(seat_text), t)

\* handle_booking_phone_lookup showing the result without set_state(IDLE)
handle_booking_phone_lookup_keeps_state(us, phone, input_phone, t) ==
    Segment(us, {})

\* found or not, set_state(IDLE) follows the message that shows the result
handle_booking_phone_lookup(us, phone, input_phone, t) ==
    LET clean_phone == StripDashSpace(input_phone)
    IN  IF ~MatchesPhone(clean_phone)
        THEN Segment(us, {})
        ELSE Segment(us, {ContSetIdle})

\* handle_text_message looking at the state before the reset keywords
handle_text_message_state_first(us, bk, phone, text, t) ==
    LET text_lower == Lower(text)
        state == get_state(us, phone, t)
        us1 == get_session(us, phone, t)
    IN  CASE state = AWAITING_NAME ->
                handle_name_input(us1, phone, text, t)
          [] state = AWAITING_REG_NUMBER ->
                handle_reg_number_input(us1, phone, text, t)
          [] state = AWAITING_PHONE ->
                handle_phone_input(us1, bk, phone, text, t)
          [] state = AWAITING_SEAT ->
                handle_seat_input(us1, bk, phone, text, t)
          [] state = AWAITING_BOOKING_PHONE ->
                handle_booking_phone_lookup(us1, phone, text, t)
          [] OTHER ->
                IF text_lower \in ResetKeywords
                THEN Segment(reset_session(us1, phone, t), {})
                ELSE Segment(us1, {})

\* handle_text_message taking any text in a state without text input as a
\* greeting
handle_text_message_default_resets(us, bk, phone, text, t) ==
    LET text_lower == Lower(text)
        state == get_state(us, phone, t)
        us1 == get_session(us, phone, t)
    IN  IF text_lower \in ResetKeywords
        THEN Segment(reset_session(us1, phone, t), {})
        ELSE CASE state = AWAITING_NAME ->
                    handle_name_input(us1, phone, text, t)
               [] state = AWAITING_REG_NUMBER ->
                    handle_reg_number_input(us1, phone, text, t)
               [] state = AWAITING_PHONE ->
                    handle_phone_input(us1, bk, phone, text, t)
               [] state = AWAITING_SEAT ->
                    handle_seat_input(us1, bk, phone, text, t)
               [] state = AWAITING_BOOKING_PHONE ->
                    handle_booking_phone_lookup(us1, phone, text, t)
               [] OTHER -> Segment(reset_session(us1, phone, t), {})

handle_text_message(us, bk, phone, text, t) ==
    LET text_lower == Lower(text)
        state == get_state(us, phone, t)
        us1 == get_session(us, phone, t)
    IN  IF text_lower \in ResetKeywords
        THEN Segment(reset_session(us1, phone, t), {})
        ELSE CASE state = AWAITING_NAME ->
                    handle_name_input(us1, phone, text, t)
               [] state = AWAITING_REG_NUMBER ->
                    handle_reg_number_input(us1, phone, text, t)
               [] state = AWAITING_PHONE ->
                    handle_phone_input(us1, bk, phone, text, t)
               [] state = AWAITING_SEAT ->
                    handle_seat_input(us1, bk, phone, text, t)
               [] state = AWAITING_BOOKING_PHONE ->
                    handle_booking_phone_lookup(us1, phone, text, t)
               [] OTHER -> Segment(us1, {})

\* button ids are <<prefix, rest>>; confirm_booking is dealt with in the webhook
handle_button_reply(us, sa, phone, button_id, t) ==
    CASE button_id = <<"book_seat", "">> ->
            Segment(set_state(us, phone, AWAITING_ROUTE, t), {})
      [] button_id = <<"main_menu", "">> ->
            Segment(reset_session(us, phone, t), {})
      [] button_id = <<"route_", "giki_multan">> ->
            handle_route_button(us, sa, phone, "GIKI-Multan", t)
      [] button_id = <<"route_", "multan_giki">> ->
            handle_route_button(us, sa, phone, "Multan-GIKI", t)
      [] button_id = <<"your_booking", "">> ->
            Segment(set_state(us, phone, AWAITING_BOOKING_PHONE, t), {})
      [] button_id[1] = "date_" ->
            handle_date_selection(us, phone, button_id[2], t)
      [] OTHER -> Segment(us, {})

handle_list_reply(us, bk, phone, list_id, t) ==
    CASE list_id[1] = "admin_" -> Segment(us, {})
      [] list_id[1] = "date_" -> handle_date_selection(us, phone, list_id[2], t)
      [] list_id[1] = "seat_" ->
            IF IsInt(list_id[2])
            THEN handle_seat_selection(us, bk, phone, ParseInt(list_id[2]), t)
            ELSE Segment(us, {})
      [] OTHER -> Segment(us, {})

\* handle_image_message taking the image as the end of the conversation
handle_image_message_ends_conversation(us, phone, image) ==
    Segment(IF phone \in DOMAIN us THEN [us EXCEPT ![phone].state = IDLE] ELSE us,
            {})

\* the acknowledgement and the menu button are sent; no session call is made
handle_image_message(us, phone, image) == Segment(us, {})

\* messages are <<type, content>>; the content of an interactive message is
\* the id of the button or of the list row
handle_incoming_message(us, bk, sa, phone, message, t) ==
    CASE message[1] = "text" ->
            handle_text_message(us, bk, phone, message[2], t)
      [] message[1] = "button_reply" ->
            handle_button_reply(us, sa, phone, message[2], t)
      [] message[1] = "list_reply" ->
            handle_list_reply(us, bk, phone, message[2], t)
      [] message[1] = "image" -> handle_image_message(us, phone, message[2])
      [] OTHER -> Segment(us, {})

-----------------------------------------------------------------------------
(* database.py: create_booking *)

\* columns that take the draft's value, NULL (absent here) when it has none;
\* the draft's "route" is no argument of create_booking
DraftColumns ==
    {"passenger_name", "passenger_phone", "student_id", "total_amount"}

\* the row create_booking builds from the draft
booking_row(booking_data) ==
    [k \in {"date_id", "selected_seats", "payment_status", "booking_status"}
            \cup (DOMAIN booking_data \cap DraftColumns) |->
        CASE k = "payment_status" -> "pending"
          [] k = "booking_status" -> "pending"
          [] OTHER -> booking_data[k]]

\* bookings.date_id and bookings.selected_seats are NOT NULL columns
Insertable(booking_data) ==
    Has(booking_data, "date_id") /\ Has(booking_data, "selected_seats")

-----------------------------------------------------------------------------
(* Initial state: no session, no booking, every counter at capacity *)

Init ==
    /\ user_sessions = EmptyDict
    /\ bookings = EmptyDict
    /\ seats_available = [t \in Trips |-> total_seats(t)]
    /\ next_id = 0
    /\ pending = [u \in Users |-> EmptyBag]
    /\ deducted = EmptyDict
    /\ restored = EmptyDict
    /\ now = 0

db == <<bookings, seats_available, next_id, deducted, restored>>

-----------------------------------------------------------------------------
(* main.py webhook_handler, one message per delivery *)

TextMessage(phone, text) ==
    /\ Commit(phone, handle_text_message(user_sessions, bookings, phone, text, now))
    /\ UNCHANGED <<db, now>>

ButtonReply(phone, button_id) ==
    /\ Commit(phone, handle_button_reply(user_sessions, seats_available, phone,
                                         button_id, now))
    /\ UNCHANGED <<db, now>>

ListReply(phone, list_id) ==
    /\ Commit(phone, handle_list_reply(user_sessions, bookings, phone, list_id, now))
    /\ UNCHANGED <<db, now>>

ImageMessage(phone, image) ==
    /\ Commit(phone, handle_image_message(user_sessions, phone, image))
    /\ UNCHANGED <<db, now>>

\* create_booking taking len(selected_seats) off the counter by itself
InsertBookingLocalDecrement(booking_data, rpc) ==
    LET booking_id == next_id + 1
        row == booking_row(booking_data)
        n == Cardinality(row.selected_seats)
    IN  /\ next_id < MaxBookings
        /\ next_id' = booking_id
        /\ bookings' = Put(bookings, booking_id, row)
        /\ deducted' = Put(deducted, booking_id, n)
        /\ seats_available' =
              [seats_available EXCEPT ![row.date_id] = @ - n]
        /\ UNCHANGED restored

\* the row is inserted and decrement_seats has run, with or without an error
InsertBooking(booking_data, rpc) ==
    LET booking_id == next_id + 1
        row == booking_row(booking_data)
    IN  /\ next_id < MaxBookings
        /\ next_id' = booking_id
        /\ bookings' = Put(bookings, booking_id, row)
        /\ deducted' = Put(deducted, booking_id,
                           seats_available[row.date_id] - rpc.value)
        /\ seats_available' = [seats_available EXCEPT ![row.date_id] = rpc.value]
        /\ UNCHANGED restored

\* process_booking_confirmation with create_booking inlined
process_booking_confirmation(phone, us, storage_fails) ==
    LET booking_data == get_booking_data(us, phone, now)
        us1 == get_session(us, phone, now)
    IN  \/ \* the insert returns no row or raises: nothing is written
           /\ Commit(phone, Segment(us1, {}))
           /\ UNCHANGED db
        \/ /\ Insertable(booking_data)
           /\ \E rpc \in rpc_execute(
                            seats_available[booking_data["date_id"]],
                            Cardinality(booking_data["selected_seats"]),
                            total_seats(booking_data["date_id"]),
                            storage_fails) :
                /\ InsertBooking(booking_data, rpc)
                /\ IF rpc.raised
                   THEN \* the exception leaves the handler: no clear_booking_data
                        Commit(phone, Segment(us1, {}))
                   ELSE Commit(phone, Segment(us1, {ContClear}))

\* button confirm_booking reaching process_booking_confirmation in every state
ConfirmBookingAnyState(phone, storage_fails) ==
    /\ process_booking_confirmation(
          phone, get_session(user_sessions, phone, now), storage_fails)
    /\ UNCHANGED now

\* button confirm_booking with the state check made on the stored session,
\* whatever its age
ConfirmBookingStoredSession(phone, storage_fails) ==
    LET us1 == get_session_never_expires(user_sessions, phone, now)
    IN  /\ IF us1[phone].state = AWAITING_PAYMENT_CONFIRMATION
           THEN process_booking_confirmation(phone, us1, storage_fails)
           ELSE Commit(phone, Segment(us1, {})) /\ UNCHANGED db
        /\ UNCHANGED now

\* button confirm_booking: main.py looks at the state before anything else
ConfirmBooking(phone, storage_fails) ==
    LET state == get_state(user_sessions, phone, now)
        us1 == get_session(user_sessions, phone, now)
    IN  /\ IF state = AWAITING_PAYMENT_CONFIRMATION
           THEN process_booking_confirmation(phone, us1, storage_fails)
           ELSE \* handle_button_reply has no branch for confirm_booking
                Commit(phone, Segment(us1, {})) /\ UNCHANGED db
        /\ UNCHANGED now

\* the session writes a suspended handler makes once its send has returned
Continue(us, phone, c, t) ==
    CASE c.kind = "clear_booking_data" -> clear_booking_data(us, phone, t)
      [] c.kind = "set_state_idle" -> set_state(us, phone, IDLE, t)
      [] c.kind = "confirmation_shown" ->
             update_booking_data(
                set_state(us, phone, AWAITING_PAYMENT_CONFIRMATION, t),
                phone, "total_amount", c.total_amount, t)

\* a suspended handler runs on
Resume(phone, c) ==
    /\ BagIn(c, pending[phone])
    /\ pending' = [pending EXCEPT ![phone] = @ (-) SetToBag({c})]
    /\ user_sessions' = Continue(user_sessions, phone, c, now)
    /\ UNCHANGED <<db, now>>

-----------------------------------------------------------------------------
(* admin_handler.py: booking management *)

BookingIds == 1 .. MaxBookings

\* the (booking_status, payment_status) pairs the admin console sends: an
\* empty update, a cancellation, a confirmation
CancelInputs == {<<NoneId, NoneId>>, <<"cancelled", "rejected">>}

StatusInputs == CancelInputs \cup {<<"confirmed", "confirmed">>}

\* update_booking_status that credits the seats of a cancelled booking back
update_booking_status_credits_seats(booking_id, booking_status, payment_status) ==
    /\ bookings' =
          IF booking_status /= NoneId /\ booking_id \in DOMAIN bookings
          THEN [bookings EXCEPT ![booking_id].booking_status = booking_status]
          ELSE bookings
    /\ seats_available' =
          IF booking_status = "cancelled" /\ booking_id \in DOMAIN bookings
          THEN [seats_available EXCEPT
                   ![bookings[booking_id].date_id] =
                       Clamp(@ + Cardinality(bookings[booking_id].selected_seats),
                             0, total_seats(bookings[booking_id].date_id))]
          ELSE seats_available
    /\ UNCHANGED <<user_sessions, pending, next_id, deducted, restored, now>>

update_booking_status(booking_id, booking_status, payment_status) ==
    LET updates ==
            [k \in (IF booking_status /= NoneId THEN {"booking_status"} ELSE {})
                    \cup (IF payment_status /= NoneId THEN {"payment_status"} ELSE {})
                |-> IF k = "booking_status" THEN booking_status ELSE payment_status]
    IN  /\ bookings' =
              IF updates /= EmptyDict /\ booking_id \in DOMAIN bookings
              THEN [bookings EXCEPT ![booking_id] =
                        [k \in DOMAIN @ |-> Get(updates, k, @[k])]]
              ELSE bookings
        /\ UNCHANGED <<user_sessions, pending, seats_available, next_id,
                       deducted, restored, now>>

\* what delete_booking returns: "Booking not found" when the lookup has no
\* data, the text of the exception when the lookup or the rpc raises
delete_booking_result(bk, booking_id, rpc_raised) ==
    IF booking_id \notin DOMAIN bk
    THEN {[success |-> FALSE, error |-> "Booking not found"],
          [success |-> FALSE, error |-> "exception"]}
    ELSE IF rpc_raised
         THEN {[success |-> FALSE, error |-> "exception"]}
         ELSE {[success |-> TRUE, error |-> NoneId]}

\* delete_booking whose delete has no filter on booking_id and no lookup
delete_booking_unfiltered(booking_id, storage_fails) ==
    /\ bookings' = EmptyDict
    /\ UNCHANGED <<user_sessions, pending, seats_available, next_id,
                   deducted, restored, now>>

\* delete_booking that marks the row cancelled instead of deleting it
delete_booking_marks_cancelled(booking_id, storage_fails) ==
    /\ bookings' =
          IF booking_id \in DOMAIN bookings
          THEN [bookings EXCEPT ![booking_id].booking_status = "cancelled"]
          ELSE bookings
    /\ UNCHANGED <<user_sessions, pending, seats_available, next_id,
                   deducted, restored, now>>

\* delete_booking whose delete matches no row
delete_booking_keeps_row(booking_id, storage_fails) ==
    /\ IF booking_id \in DOMAIN bookings
       THEN LET row == bookings[booking_id]
                date_id == row.date_id
                seats_count == Cardinality(row.selected_seats)
            IN  /\ bookings' = bookings
                /\ IF seats_count > 0
                   THEN \E rpc \in rpc_execute(seats_available[date_id],
                                               -seats_count,
                                               total_seats(date_id),
                                               storage_fails) :
                          /\ seats_available' =
                                [seats_available EXCEPT ![date_id] = rpc.value]
                          /\ restored' =
                                IF rpc.value > seats_available[date_id]
                                THEN Put(restored, booking_id,
                                         Get(restored, booking_id, 0) + 1)
                                ELSE restored
                   ELSE UNCHANGED <<seats_available, restored>>
       ELSE UNCHANGED <<bookings, seats_available, restored>>
    /\ UNCHANGED <<user_sessions, pending, next_id, deducted, now>>

delete_booking(booking_id, storage_fails) ==
    /\ IF booking_id \in DOMAIN bookings
       THEN LET row == bookings[booking_id]
                date_id == row.date_id
                seats_count == Cardinality(row.selected_seats)
                rest == [b \in DOMAIN bookings \ {booking_id} |-> bookings[b]]
            IN  /\ bookings' = rest
                /\ IF seats_count > 0
                   THEN \E rpc \in rpc_execute(seats_available[date_id],
                                               -seats_count,
                                               total_seats(date_id),
                                               storage_fails) :
                          /\ seats_available' =
                                [seats_available EXCEPT ![date_id] = rpc.value]
                          /\ restored' =
                                IF rpc.value > seats_available[date_id]
                                THEN Put(restored, booking_id,
                                         Get(restored, booking_id, 0) + 1)
                                ELSE restored
                   ELSE UNCHANGED <<seats_available, restored>>
       ELSE UNCHANGED <<bookings, seats_available, restored>>
    /\ UNCHANGED <<user_sessions, pending, next_id, deducted, now>>

-----------------------------------------------------------------------------
(* The users: a user answers the prompt the bot last sent them, with a     *)
(* valid or an invalid answer, or starts over; the next message is sent    *)
(* once the reply to the previous one has arrived                          *)

StateOf(phone) ==
    IF phone \in DOMAIN user_sessions THEN user_sessions[phone].state ELSE IDLE

DraftOf(phone) ==
    IF phone \in DOMAIN user_sessions
    THEN user_sessions[phone].booking_data ELSE EmptyDict

\* no handler of this user is suspended
Quiet(phone) == pending[phone] = EmptyBag

\* texts typed in answer to the prompt of a state
PromptTexts(state) ==
    CASE state = AWAITING_NAME -> {TxtAl, TxtAliKhan}
      [] state = AWAITING_REG_NUMBER -> {TxtAl, TxtReg}
      [] state = AWAITING_PHONE -> {TxtAl, TxtPhoneDashed}
      [] state = AWAITING_SEAT -> {TxtAl, TxtSeat1, TxtSeat2, TxtSeat3}
      [] state = AWAITING_BOOKING_PHONE -> {TxtAl, TxtPhoneDashed}
      [] OTHER -> {}

\* buttons shown with the prompt of a state, next to the main-menu button;
\* the route buttons of an earlier menu are still on the screen in IDLE
PromptButtons(state) ==
    {<<"main_menu", "">>}
      \cup (IF state = IDLE
            THEN {<<"book_seat", "">>, <<"your_booking", "">>, <<"status", "">>}
            ELSE {})
      \cup (IF state \in {IDLE, AWAITING_ROUTE}
            THEN {<<"route_", "giki_multan">>, <<"route_", "multan_giki">>}
            ELSE {})

\* rows of the date list sent for the chosen route, or a row that is gone;
\* a seat picked from a list instead of typed; in IDLE the row of an earlier
\* date list, of a trip that has since left the lists, is still on the screen
PromptLists(phone) ==
    CASE StateOf(phone) = IDLE ->
            {<<"date_", d>> : d \in {t \in Trips : seats_available[t] = 0}}
      [] StateOf(phone) = AWAITING_DATE ->
            {<<"date_", d>> :
                d \in get_available_dates_by_route(
                         seats_available, Get(DraftOf(phone), "route", NoneId))
                       \cup {NoTrip}}
      [] StateOf(phone) = AWAITING_SEAT ->
            {<<"seat_", n>> : n \in {TxtSeat1, TxtSeat2}}
      [] OTHER -> {}

UserText(phone) ==
    /\ Quiet(phone)
    /\ \E text \in PromptTexts(StateOf(phone)) \cup {TxtHi, TxtHey} :
          TextMessage(phone, text)

UserButton(phone) ==
    /\ Quiet(phone)
    /\ \E button_id \in PromptButtons(StateOf(phone)) :
          ButtonReply(phone, button_id)

UserList(phone) ==
    /\ Quiet(phone)
    /\ \E list_id \in PromptLists(phone) : ListReply(phone, list_id)

\* a photo can be sent at any prompt
UserImage(phone) ==
    /\ Quiet(phone)
    /\ ImageMessage(phone, "")

UserConfirm(phone, storage_fails) ==
    /\ Quiet(phone)
    /\ StateOf(phone) = AWAITING_PAYMENT_CONFIRMATION
    /\ ConfirmBooking(phone, storage_fails)

UserResume(phone) == \E c \in BagToSet(pending[phone]) : Resume(phone, c)

AdminUpdate(inputs) ==
    \E booking_id \in BookingIds, st \in inputs :
       update_booking_status(booking_id, st[1], st[2])

AdminDelete(storage_fails) ==
    \E booking_id \in BookingIds : delete_booking(booking_id, storage_fails)

-----------------------------------------------------------------------------
(* Specifications *)

\* one user books, the admin cancels and deletes bookings, a decrement_seats
\* call can fail before it reaches the database
Customers == {"u1"}

UserStep(phone, storage_fails) ==
    \/ UserText(phone)
    \/ UserButton(phone)
    \/ UserList(phone)
    \/ UserImage(phone)
    \/ UserConfirm(phone, storage_fails)
    \/ UserResume(phone)

Next ==
    \/ \E phone \in Customers : UserStep(phone, TRUE)
    \/ AdminUpdate(CancelInputs)
    \/ AdminDelete(TRUE)

Spec == Init /\ [][Next]_vars

\* one user books, the admin confirms, cancels and deletes bookings, every
\* decrement_seats call reaches the database
NextReliable ==
    \/ \E phone \in Customers : UserStep(phone, FALSE)
    \/ AdminUpdate(StatusInputs)
    \/ AdminDelete(FALSE)

SpecReliable == Init /\ [][NextReliable]_vars

\* every user books, no admin call is made, every decrement_seats call reaches
\* the database
NextUsers == \E phone \in Users : UserStep(phone, FALSE)

SpecUsers == Init /\ [][NextUsers]_vars

\* the confirm button is delivered a second time while the handler of the
\* first delivery is suspended in a send, before its clear_booking_data
DuplicateConfirm(phone) ==
    /\ StateOf(phone) = AWAITING_PAYMENT_CONFIRMATION
    /\ BagIn(ContClear, pending[phone])
    /\ ConfirmBooking(phone, FALSE)

\* one user books and every confirm can be delivered twice; no admin call is
\* made, every decrement_seats call reaches the database
NextDuplicates ==
    \E phone \in Customers :
        \/ UserStep(phone, FALSE)
        \/ DuplicateConfirm(phone)

SpecDuplicates == Init /\ [][NextDuplicates]_vars

-----------------------------------------------------------------------------
(* The session store on its own: the calls of session_manager.py made at   *)
(* any time, while the clock runs                                          *)

\* minutes between two calls
TickSizes == {1, 30, 31}

\* datetime.now() has moved on
Tick(d) ==
    /\ now + d <= MaxTime
    /\ now' = now + d
    /\ UNCHANGED <<user_sessions, pending, db>>

\* a call that leaves user_sessions as us
SessionCall(us) ==
    /\ user_sessions' = us
    /\ UNCHANGED <<pending, db, now>>

GetState(phone) == SessionCall(get_session(user_sessions, phone, now))

GetBookingData(phone) == SessionCall(get_session(user_sessions, phone, now))

SetState(phone, state) == SessionCall(set_state(user_sessions, phone, state, now))

UpdateBookingData(phone, key, value) ==
    SessionCall(update_booking_data(user_sessions, phone, key, value, now))

ClearBookingData(phone) ==
    SessionCall(clear_booking_data(user_sessions, phone, now))

ResetSession(phone) == SessionCall(reset_session(user_sessions, phone, now))

\* the states and the draft field the calls write
CallStates == {IDLE, AWAITING_NAME, AWAITING_SEAT}

CallFields == {<<"route", "GIKI-Multan">>, <<"passenger_name", TxtAliKhan>>}

NextSessions ==
    \/ \E d \in TickSizes : Tick(d)
    \/ \E phone \in Customers :
          \/ GetState(phone)
          \/ GetBookingData(phone)
          \/ \E state \in CallStates : SetState(phone, state)
          \/ \E f \in CallFields : UpdateBookingData(phone, f[1], f[2])
          \/ ClearBookingData(phone)
          \/ ResetSession(phone)

SpecSessions == Init /\ [][NextSessions]_vars

-----------------------------------------------------------------------------
(* One conversation while the clock runs: the user may stay away between   *)
(* two messages                                                            *)

\* minutes the user stays away
AwayMinutes == {30, 31}

NextAway ==
    \/ \E phone \in Customers : UserStep(phone, FALSE)
    \/ \E d \in AwayMinutes : Tick(d)

SpecAway == Init /\ [][NextAway]_vars

-----------------------------------------------------------------------------
(* Two users while the clock runs: one goes through the conversation, the  *)
(* other opens a booking and stays away                                    *)

Neighbours == Users \ Customers

NextNeighbours ==
    \/ \E phone \in Customers : UserStep(phone, FALSE)
    \/ \E phone \in Neighbours : UserButton(phone)
    \/ Tick(SESSION_EXPIRY_MINUTES + 1)

SpecNeighbours == Init /\ [][NextNeighbours]_vars

-----------------------------------------------------------------------------
(* Properties *)

\* the non-cancelled bookings of trip t and the seats they hold, read off the
\* table
Holders(t) ==
    {b \in DOMAIN bookings :
        /\ bookings[b].date_id = t
        /\ bookings[b].booking_status \in {"pending", "confirmed"}}

HeldSeats(t) == UNION {bookings[b].selected_seats : b \in Holders(t)}

\* number of seats the non-cancelled bookings of trip t hold
RECURSIVE SeatCount(_)
SeatCount(B) ==
    IF B = {} THEN 0
    ELSE LET b == CHOOSE x \in B : TRUE
         IN  Cardinality(bookings[b].selected_seats) + SeatCount(B \ {b})

\* bookings the step creates
Created == DOMAIN bookings' \ DOMAIN bookings

(* C1: for every trip the seats of its non-cancelled bookings are pairwise *)
(* disjoint and lie in 1 .. total_seats: no seat is held by two            *)
(* non-cancelled bookings of the same trip.                                *)
NoSeatHeldTwice ==
    \A t \in Trips :
        /\ \A b1, b2 \in Holders(t) :
              b1 /= b2 =>
                bookings[b1].selected_seats \cap bookings[b2].selected_seats = {}
        /\ \A b \in Holders(t) : bookings[b].selected_seats \subseteq AllSeats(t)

(* C2: when two users go for the single seat of a trip, one booking is     *)
(* created and the other attempt creates none: a trip with one seat never  *)
(* has two bookings created on it.                                         *)
OneSeatOneBooking ==
    \A t \in Trips :
        total_seats(t) = 1 =>
            Cardinality({b \in DOMAIN bookings : bookings[b].date_id = t}) <= 1

(* C3: availability is evaluated again when the booking is created: a     *)
(* confirm whose drafted seat was taken in the meantime creates no         *)
(* booking, so every booking a step creates holds only seats that were     *)
(* available when the step began.                                          *)
ConfirmRechecksSeat ==
    [][\A b \in Created :
          bookings'[b].selected_seats
            \subseteq get_available_seats(bookings, bookings'[b].date_id)]_vars

(* C4: for every trip seats_available equals total_seats minus the number  *)
(* of seats held by the trip's non-cancelled bookings (a booking creation  *)
(* is a single step here, so no operation is ever in progress).            *)
CounterMatchesBookings ==
    \A t \in Trips :
        seats_available[t] = total_seats(t) - SeatCount(Holders(t))

(* C5: no booking exists whose seats were not taken off the counter of     *)
(* its trip: an insert whose decrement failed is undone.                   *)
NoPhantomBooking ==
    \A b \in DOMAIN bookings :
        deducted[b] = Cardinality(bookings[b].selected_seats)

SeatsPartitioned ==
    \A t \in Trips :
        /\ get_available_seats(bookings, t) \cap HeldSeats(t) = {}
        /\ get_available_seats(bookings, t) \cup HeldSeats(t) = AllSeats(t)

\* a trip with a cancelled booking whose seat is free again and a confirmed
\* booking that holds another seat
CancelledSeatFree ==
    \E b, c \in DOMAIN bookings :
        /\ bookings[b].booking_status = "cancelled"
        /\ bookings[b].selected_seats
              \subseteq get_available_seats(bookings, bookings[b].date_id)
        /\ bookings[c].date_id = bookings[b].date_id
        /\ bookings[c].booking_status = "confirmed"

(* C8: creating a booking for seats that are available removes exactly     *)
(* those seats from the trip's available set and changes the available     *)
(* set of no other trip.                                                   *)
CreateRoundTrip ==
    [][\A b \in Created :
          LET t == bookings'[b].date_id
              seats == bookings'[b].selected_seats
          IN  seats \subseteq get_available_seats(bookings, t) =>
                /\ get_available_seats(bookings', t)
                     = get_available_seats(bookings, t) \ seats
                /\ \A o \in Trips \ {t} :
                     get_available_seats(bookings', o)
                       = get_available_seats(bookings, o)]_vars

\* seat 1 of t1 is booked, seat 2 and the other trip are untouched
OneSeatTaken ==
    /\ \E b \in DOMAIN bookings :
          /\ bookings[b].date_id = "t1"
          /\ bookings[b].selected_seats = {1}
          /\ bookings[b].booking_status = "pending"
    /\ get_available_seats(bookings, "t1") = {2}
    /\ get_available_seats(bookings, "t2") = {1}

(* C9: whatever cancel and delete calls are made on a booking_id, the      *)
(* counter of its trip is raised at most once for it.                      *)
RestoredAtMostOnce ==
    \A b \in DOMAIN restored : restored[b] <= 1

\* a booking was deleted and its seat credited back
DeletedAndRestored ==
    \E b \in DOMAIN restored : restored[b] = 1 /\ b \notin DOMAIN bookings

\* the session of phone after the step
StateAfter(phone) == user_sessions'[phone].state
DraftAfter(phone) == user_sessions'[phone].booking_data

\* the trip has a seat in its available set
TripOpen(t) == get_available_seats(bookings, t) /= {}

\* what one event of the booking conversation does, for trips that are Eligible
HappyPathStep(phone, Eligible(_)) ==
    LET draft == DraftOf(phone)
        date_id == Get(draft, "date_id", NoneId)
    IN  /\ \A button_id \in {<<"route_", "giki_multan">>,
                               <<"route_", "multan_giki">>} :
              /\ Quiet(phone) /\ StateOf(phone) = IDLE
              /\ ButtonReply(phone, button_id)
              /\ \E t \in Trips :
                    Eligible(t) /\ Buses[t].route = DraftAfter(phone)["route"]
              => StateAfter(phone) = AWAITING_DATE
        /\ \A t \in Trips :
              /\ Quiet(phone) /\ StateOf(phone) = AWAITING_DATE
              /\ Eligible(t) /\ Buses[t].route = Get(draft, "route", NoneId)
              /\ ListReply(phone, <<"date_", t>>)
              => /\ StateAfter(phone) = AWAITING_NAME
                 /\ DraftAfter(phone)["date_id"] = t
        /\ \A text \in {TxtHi, TxtHey, TxtAl, TxtAliKhan, TxtReg,
                         TxtPhoneDashed, TxtSeat1, TxtSeat2, TxtSeat3} :
              /\ Quiet(phone) /\ Lower(text) \notin ResetKeywords
              /\ TextMessage(phone, text)
              => /\ StateOf(phone) = AWAITING_NAME /\ Len(text) >= 3
                    => StateAfter(phone) = AWAITING_REG_NUMBER
                 /\ StateOf(phone) = AWAITING_REG_NUMBER
                      /\ MatchesRegNumber(text)
                    => StateAfter(phone) = AWAITING_PHONE
                 /\ StateOf(phone) = AWAITING_PHONE
                      /\ MatchesPhone(StripDashSpace(text))
                      /\ date_id \in Trips /\ TripOpen(date_id)
                    => StateAfter(phone) = AWAITING_SEAT
                 /\ StateOf(phone) = AWAITING_SEAT
                      /\ IsInt(text)
                      /\ ParseInt(text) \in get_available_seats(bookings, date_id)
                    => /\ StateAfter(phone) = AWAITING_SEAT
                       /\ BagToSet(pending'[phone])
                            = {ContConfirmationShown(Buses[date_id].price)}
        /\ \A c \in BagToSet(pending[phone]) :
              c.kind = "confirmation_shown" /\ Resume(phone, c)
              => /\ StateAfter(phone) = AWAITING_PAYMENT_CONFIRMATION
                 /\ DraftAfter(phone)["total_amount"] = Buses[date_id].price

(* C10: from IDLE, selecting a route, then an existing trip of it that has *)
(* an available seat, then a name of at least 3 characters, a registration *)
(* number matching ^202\d{4}$, a phone matching ^03\d{9}$ and a seat of    *)
(* the trip's available set takes the session through AWAITING_DATE,       *)
(* AWAITING_NAME, AWAITING_REG_NUMBER, AWAITING_PHONE and AWAITING_SEAT to *)
(* AWAITING_PAYMENT_CONFIRMATION with total_amount = the trip's price:     *)
(* every event of the sequence moves the session to the next state.        *)
HappyPath ==
    [][\A phone \in Users : HappyPathStep(phone, TripOpen)]_vars

\* the message bodies the users type
Texts ==
    {TxtHi, TxtHey, TxtAl, TxtAliKhan, TxtReg, TxtPhoneDashed,
     TxtSeat1, TxtSeat2, TxtSeat3}

\* the texts that are a reset keyword once lowered: "Hi" and "Hey"
ResetTexts == {text \in Texts : Lower(text) \in ResetKeywords}

\* the seat is not one the session's trip has available
SeatUnavailable(phone, seat_text) ==
    \/ ~IsInt(seat_text)
    \/ ParseInt(seat_text)
          \notin get_available_seats(bookings,
                                     Get(DraftOf(phone), "date_id", NoneId))

\* the texts that are no reset keyword and fail the test of a prompt
PlainTexts == Texts \ ResetTexts
TooShortTexts == {text \in PlainTexts : Len(text) < 3}
NoRegNumberTexts == {text \in PlainTexts : ~MatchesRegNumber(text)}
NoPhoneTexts == {text \in PlainTexts : ~MatchesPhone(StripDashSpace(text))}

\* text fails the validation of the state the session of phone is in
FailsValidation(phone, text) ==
    \/ StateOf(phone) = AWAITING_NAME /\ text \in TooShortTexts
    \/ StateOf(phone) = AWAITING_REG_NUMBER /\ text \in NoRegNumberTexts
    \/ StateOf(phone) \in {AWAITING_PHONE, AWAITING_BOOKING_PHONE}
         /\ text \in NoPhoneTexts
    \/ StateOf(phone) = AWAITING_SEAT /\ SeatUnavailable(phone, text)

\* state and draft of phone, the tables and the suspended handlers are as before
NothingWritten(phone) ==
    /\ StateAfter(phone) = StateOf(phone)
    /\ DraftAfter(phone) = DraftOf(phone)
    /\ pending' = pending
    /\ UNCHANGED db

(* C11: an input that fails the validation of the session's state (a name  *)
(* shorter than 3 characters, a registration number not matching           *)
(* ^202\d{4}$, a phone not matching ^03\d{9}$, a non-integer or            *)
(* unavailable seat) leaves the session's state and draft as they were and *)
(* writes nothing to the bookings or the seat counters.                    *)
FailedValidationNoChange ==
    [][\A phone \in DOMAIN user_sessions' :
          \/ NothingWritten(phone)
          \/ \* the step is no failed validation of phone
             /\ \A text \in PlainTexts :
                   ~(FailsValidation(phone, text) /\ TextMessage(phone, text))
             /\ \A seat_text \in {TxtSeat1, TxtSeat2, TxtSeat3} :
                   ~(/\ StateOf(phone) = AWAITING_SEAT
                     /\ SeatUnavailable(phone, seat_text)
                     /\ ListReply(phone, <<"seat_", seat_text>>))]_vars

\* a session waits for a seat of a trip of which another booking holds a seat
SeatPromptWithTakenSeat ==
    \E phone \in Users :
        /\ StateOf(phone) = AWAITING_SEAT
        /\ Quiet(phone)
        /\ Get(DraftOf(phone), "date_id", NoneId) = "t1"
        /\ get_available_seats(bookings, "t1") = {2}

\* the session of phone is older than the expiry time / not older
Expired(phone) ==
    /\ phone \in DOMAIN user_sessions
    /\ now - user_sessions[phone].last_activity > 30

Fresh(phone) ==
    /\ phone \in DOMAIN user_sessions
    /\ now - user_sessions[phone].last_activity <= 30

(* C12: a session whose last_activity is more than 30 minutes in the past  *)
(* is replaced on the next access of any kind by a brand-new one: after    *)
(* get_state, get_booking_data or clear_booking_data it is IDLE with an    *)
(* empty draft, after set_state it has the new state and an empty draft,   *)
(* after update_booking_data it is IDLE and its draft holds the new field  *)
(* only, whatever it held before.                                          *)
ExpiredSessionReplaced ==
    [][\A phone \in Users :
          Expired(phone) =>
            /\ GetState(phone) \/ GetBookingData(phone) \/ ClearBookingData(phone)
                 => StateAfter(phone) = IDLE /\ DraftAfter(phone) = EmptyDict
            /\ \A state \in CallStates :
                 SetState(phone, state)
                 => StateAfter(phone) = state /\ DraftAfter(phone) = EmptyDict
            /\ \A f \in CallFields :
                 UpdateBookingData(phone, f[1], f[2])
                 => /\ StateAfter(phone) = IDLE
                    /\ DraftAfter(phone) = Put(EmptyDict, f[1], f[2])]_vars

\* more than 30 minutes have passed and a call has just left a brand-new session
BrandNewAfterExpiry ==
    \E phone \in DOMAIN user_sessions :
        /\ now > 30
        /\ user_sessions[phone]
             = [state |-> IDLE, booking_data |-> EmptyDict, last_activity |-> now]

(* C13: while now - last_activity <= 30 minutes, exactly 30 included, a    *)
(* retrieval returns the session with state and draft unchanged, and every *)
(* call, the pure reads get_state and get_booking_data included, sets      *)
(* last_activity to the current time.                                      *)
FreshSessionKept ==
    [][\A phone \in Users :
          /\ Fresh(phone) /\ (GetState(phone) \/ GetBookingData(phone))
             => /\ StateAfter(phone) = StateOf(phone)
                /\ DraftAfter(phone) = DraftOf(phone)
          /\ user_sessions' /= user_sessions /\ phone \in DOMAIN user_sessions'
             => user_sessions'[phone].last_activity = now]_vars

\* after more than 30 minutes a session still holds a state and a draft
SessionKeptAlive ==
    \E phone \in DOMAIN user_sessions :
        /\ now > 30
        /\ user_sessions[phone].last_activity = now
        /\ user_sessions[phone].state = AWAITING_SEAT
        /\ user_sessions[phone].booking_data /= EmptyDict

\* the session of phone is IDLE with an empty draft and nothing else is written
BackToIdle(phone) ==
    /\ StateAfter(phone) = IDLE
    /\ DraftAfter(phone) = EmptyDict
    /\ pending' = pending
    /\ UNCHANGED db

(* C14: in every conversation state a reset keyword (hi, hello, hey,       *)
(* start, menu, home, in any case) and the main_menu button leave the      *)
(* session IDLE with an empty draft; the input is not taken as a name,     *)
(* registration number, phone or seat, and no booking or counter changes.  *)
ResetFromEveryState ==
    [][\A phone \in Users :
          /\ \A text \in ResetTexts :
                TextMessage(phone, text) => BackToIdle(phone)
          /\ ButtonReply(phone, <<"main_menu", "">>) => BackToIdle(phone)]_vars

\* a session waits for a name: "Hey" is long enough to be one
NamePromptOpen ==
    \E phone \in Users :
        /\ StateOf(phone) = AWAITING_NAME
        /\ Quiet(phone)
        /\ Has(DraftOf(phone), "date_id")
        /\ Len(TxtHey) >= 3 /\ Lower(TxtHey) \in ResetKeywords

(* C16: the cancel button of the confirmation prompt, pressed in           *)
(* AWAITING_PAYMENT_CONFIRMATION, returns the session to IDLE with an      *)
(* empty draft, creates no booking and changes no seat counter.            *)
CancelDiscardsDraft ==
    [][\A phone \in Users :
          /\ StateOf(phone) = AWAITING_PAYMENT_CONFIRMATION
          /\ ButtonReply(phone, <<"main_menu", "">>)
          => /\ StateAfter(phone) = IDLE
             /\ DraftAfter(phone) = EmptyDict
             /\ UNCHANGED db]_vars

\* the confirmation prompt is on the screen with a complete draft
ConfirmationPromptOpen ==
    \E phone \in Users :
        /\ StateOf(phone) = AWAITING_PAYMENT_CONFIRMATION
        /\ Quiet(phone)
        /\ Has(DraftOf(phone), "selected_seats")
        /\ Has(DraftOf(phone), "total_amount")

\* the confirm of phone has created a booking and create_booking has returned it
ConfirmSucceeds(phone) ==
    /\ StateOf(phone) = AWAITING_PAYMENT_CONFIRMATION
    /\ \E storage_fails \in BOOLEAN : ConfirmBooking(phone, storage_fails)
    /\ Created /= {}
    /\ BagIn(ContClear, pending'[phone])

\* the booking the step created is the draft of phone, pending and unpaid
CreatedFromDraft(phone) ==
    LET draft == DraftOf(phone)
    IN  /\ Cardinality(Created) = 1
        /\ \A b \in Created :
              /\ bookings'[b].booking_status = "pending"
              /\ bookings'[b].payment_status = "pending"
              /\ bookings'[b].date_id = draft["date_id"]
              /\ bookings'[b].selected_seats = draft["selected_seats"]
              /\ \A k \in DraftColumns : bookings'[b][k] = draft[k]

\* the counter of the draft's trip went down by the number of drafted seats
CounterTakesSeats(phone) ==
    LET date_id == DraftOf(phone)["date_id"]
    IN  seats_available'[date_id]
          = seats_available[date_id]
              - Cardinality(DraftOf(phone)["selected_seats"])

(* C15: in AWAITING_PAYMENT_CONFIRMATION a confirm whose booking creation  *)
(* succeeds creates exactly one booking, pending and unpaid, that carries  *)
(* the draft's trip, passenger fields, seat and total_amount, takes the    *)
(* number of selected seats off the trip's counter, and then clears the    *)
(* draft and leaves the session IDLE.                                      *)
ConfirmCreatesBooking ==
    [][\A phone \in Users :
          /\ ConfirmSucceeds(phone)
             => CreatedFromDraft(phone) /\ CounterTakesSeats(phone)
          /\ Resume(phone, ContClear)
             => StateAfter(phone) = IDLE /\ DraftAfter(phone) = EmptyDict]_vars

(* C17: when the trip-selection event names a trip that no longer exists   *)
(* the conversation aborts: in every state where a date is awaited, the    *)
(* selection of a missing trip leaves the session IDLE with an empty draft.*)
VanishedTripAborts ==
    \A phone \in Users :
        StateOf(phone) = AWAITING_DATE /\ ~get_date_info(NoTrip) =>
            LET seg == handle_list_reply(user_sessions, bookings, phone,
                                         <<"date_", NoTrip>>, now)
            IN  /\ seg.us[phone].state = IDLE
                /\ seg.us[phone].booking_data = EmptyDict

\* text without its spaces and dashes
WithoutSeparators(text) == SelectSeq(text, LAMBDA ch : ch \notin {"-", " "})

(* C18: a valid phone number entered in AWAITING_PHONE aborts the          *)
(* conversation when the trip has no available seat: clear_booking_data    *)
(* follows the apology and leaves the session IDLE with an empty draft.    *)
(* When the trip has an available seat the session moves to AWAITING_SEAT  *)
(* and passenger_phone holds the number without spaces and dashes.         *)
PhoneStepChecksSeats ==
    [][\A phone \in Users :
          /\ \A text \in Texts :
                /\ StateOf(phone) = AWAITING_PHONE
                /\ Lower(text) \notin ResetKeywords
                /\ MatchesPhone(WithoutSeparators(text))
                /\ TextMessage(phone, text)
                => IF get_available_seats(
                         bookings, Get(DraftOf(phone), "date_id", NoneId)) = {}
                   THEN BagIn(ContClear, pending'[phone])
                   ELSE /\ StateAfter(phone) = AWAITING_SEAT
                        /\ DraftAfter(phone)["passenger_phone"]
                             = WithoutSeparators(text)
                        /\ pending' = pending
          /\ StateOf(phone) = AWAITING_PHONE /\ Resume(phone, ContClear)
             => StateAfter(phone) = IDLE /\ DraftAfter(phone) = EmptyDict]_vars

\* the phone was accepted for a trip without a free seat: the abort is under way
AbortForFullTrip ==
    \E phone \in Users :
        /\ StateOf(phone) = AWAITING_PHONE
        /\ BagIn(ContClear, pending[phone])
        /\ Has(DraftOf(phone), "passenger_phone")
        /\ get_available_seats(bookings, DraftOf(phone)["date_id"]) = {}

SessionUnchanged(phone) ==
    StateAfter(phone) = StateOf(phone) /\ DraftAfter(phone) = DraftOf(phone)

\* the session enters state to, coming from another state
Enters(phone, to) == StateAfter(phone) = to /\ StateOf(phone) # to

RouteButtons == {<<"route_", "giki_multan">>, <<"route_", "multan_giki">>}

(* C19: state changes follow the state table.  A session enters            *)
(* AWAITING_NAME only from AWAITING_DATE, AWAITING_DATE only from           *)
(* AWAITING_ROUTE and AWAITING_PAYMENT_CONFIRMATION only from              *)
(* AWAITING_SEAT; a trip, route or seat selection received in any other    *)
(* state leaves state and draft as they were.                              *)
StateTableFollowed ==
    [][\A phone \in DOMAIN user_sessions' :
          /\ Enters(phone, AWAITING_NAME) => StateOf(phone) = AWAITING_DATE
          /\ Enters(phone, AWAITING_DATE) => StateOf(phone) = AWAITING_ROUTE
          /\ Enters(phone, AWAITING_PAYMENT_CONFIRMATION)
                => StateOf(phone) = AWAITING_SEAT
          /\ \A d \in Trips \cup {NoTrip} :
                StateOf(phone) # AWAITING_DATE /\ ListReply(phone, <<"date_", d>>)
                => SessionUnchanged(phone)
          /\ \A button_id \in RouteButtons :
                StateOf(phone) # AWAITING_ROUTE /\ ButtonReply(phone, button_id)
                => SessionUnchanged(phone)
          /\ \A n \in {TxtSeat1, TxtSeat2} :
                StateOf(phone) # AWAITING_SEAT /\ ListReply(phone, <<"seat_", n>>)
                => SessionUnchanged(phone)]_vars

\* the booking flow in the order its states are visited
FlowStates ==
    <<AWAITING_DATE, AWAITING_NAME, AWAITING_REG_NUMBER, AWAITING_PHONE,
      AWAITING_SEAT, AWAITING_PAYMENT_CONFIRMATION>>

\* draft fields written by the step that leads into the i-th flow state
StepFields(i) ==
    CASE i = 1 -> {"route"}
      [] i = 2 -> {"date_id", "bus_id", "price"}
      [] i = 3 -> {"passenger_name"}
      [] i = 4 -> {"student_id"}
      [] i = 5 -> {"passenger_phone"}
      [] i = 6 -> {"selected_seats", "total_amount"}

FieldsUpTo(i) == UNION {StepFields(j) : j \in 1 .. i}

FlowFields == FieldsUpTo(Len(FlowStates))

\* the fields the next step adds to those of the i-th flow state
NextStepFields(i) == IF i < Len(FlowStates) THEN StepFields(i + 1) ELSE {}

(* C20: draft fields are populated in the order of the flow.  In every     *)
(* reachable session a flow state implies the fields of its own and of     *)
(* all earlier steps are in the draft, and no field of a later step is.    *)
(* While a handler of the user is suspended in a send, between the write   *)
(* of its field and the write of the state, the field of the step that is  *)
(* being taken may already be there.                                       *)
DraftFollowsState ==
    \A phone \in Users :
        \A i \in 1 .. Len(FlowStates) :
            StateOf(phone) = FlowStates[i] =>
                LET present == {k \in FlowFields : Has(DraftOf(phone), k)}
                IN  /\ FieldsUpTo(i) \subseteq present
                    /\ present \subseteq
                          FieldsUpTo(i)
                            \cup (IF Quiet(phone) THEN {} ELSE NextStepFields(i))

\* the messages a user can send from what is on the screen
Offered(phone) ==
    {<<"text", text>> : text \in PromptTexts(StateOf(phone)) \cup {TxtHi, TxtHey}}
      \cup {<<"button_reply", b>> : b \in PromptButtons(StateOf(phone))}
      \cup {<<"list_reply", l>> : l \in PromptLists(phone)}

\* the sessions once the handler of the segment has run to its end
Completed(seg, phone, t) ==
    IF seg.conts = {}
    THEN seg.us
    ELSE Continue(seg.us, phone, CHOOSE c \in seg.conts : TRUE, t)

\* state and draft of phone in the sessions us
SessionView(us, phone) ==
    IF phone \in DOMAIN us
    THEN <<us[phone].state, us[phone].booking_data>>
    ELSE <<IDLE, EmptyDict>>

\* m1 is handled to its end, then m2
Serial(phone, m1, m2) ==
    LET after1 == Completed(handle_incoming_message(
                     user_sessions, bookings, seats_available, phone, m1, now),
                     phone, now)
    IN  Completed(handle_incoming_message(
                     after1, bookings, seats_available, phone, m2, now),
                  phone, now)

\* the handler of m1 is suspended in its send when m2 arrives: the handler of
\* m2 runs up to its own send, and the two finish in either order
Interleaved(phone, m1, m2) ==
    LET seg1 == handle_incoming_message(
                   user_sessions, bookings, seats_available, phone, m1, now)
        seg2 == handle_incoming_message(
                   seg1.us, bookings, seats_available, phone, m2, now)
        first1 == Completed(Segment(Completed(Segment(seg2.us, seg1.conts),
                                              phone, now),
                                    seg2.conts), phone, now)
        first2 == Completed(Segment(Completed(seg2, phone, now), seg1.conts),
                            phone, now)
    IN  IF seg1.conts = {} THEN {} ELSE {first1, first2}

(* C21: two events of one user whose handlers interleave at the sends      *)
(* leave the session with a state and a draft that handling the two        *)
(* events one after the other, in one of the two orders, also produces.    *)
InterleavingSerializable ==
    \A phone \in Customers :
        Quiet(phone) =>
            \A m1, m2 \in Offered(phone) :
                \A us \in Interleaved(phone, m1, m2) :
                    SessionView(us, phone)
                       \in {SessionView(Serial(phone, m1, m2), phone),
                            SessionView(Serial(phone, m2, m1), phone)}

\* the confirm of phone did not reach the success branch: create_booking
\* returned no booking or raised, and no clear_booking_data is waiting
ConfirmFails(phone) ==
    /\ StateOf(phone) = AWAITING_PAYMENT_CONFIRMATION
    /\ ConfirmBooking(phone, TRUE)
    /\ pending' = pending

(* C22: when create_booking fails at the confirm step the state machine    *)
(* does not advance.  No booking exists for the attempt, no seat counter   *)
(* is changed, and the session keeps the confirmation state and its draft, *)
(* from where the user can confirm again or cancel.                        *)
FailedConfirmChangesNothing ==
    [][\A phone \in Customers :
          ConfirmFails(phone)
          => /\ bookings' = bookings
             /\ seats_available' = seats_available
             /\ SessionUnchanged(phone)]_vars

\* every message of the model
AllMessages ==
    {<<"text", text>> : text \in Texts}
      \cup {<<"button_reply", b>> :
              b \in {<<"main_menu", "">>, <<"book_seat", "">>,
                      <<"your_booking", "">>, <<"status", "">>} \cup RouteButtons}
      \cup {<<"list_reply", <<"date_", d>>>> : d \in Trips \cup {NoTrip}}
      \cup {<<"list_reply", <<"seat_", n>>>> : n \in {TxtSeat1, TxtSeat2}}
      \cup {<<"image", "">>}

\* the sessions once the handler of message has run to its end
Handled(us, phone, message) ==
    Completed(handle_incoming_message(us, bookings, seats_available, phone,
                                      message, now), phone, now)

\* the messages that book seat 1 or 2 of trip t, from the book-a-seat button on
BookingPath(t, seat) ==
    << <<"button_reply", <<"book_seat", "">>>>,
       <<"button_reply", IF Buses[t].route = "GIKI-Multan"
                         THEN <<"route_", "giki_multan">>
                         ELSE <<"route_", "multan_giki">>>>,
       <<"list_reply", <<"date_", t>>>>,
       <<"text", TxtAliKhan>>,
       <<"text", TxtReg>>,
       <<"text", TxtPhoneDashed>>,
       <<"text", IF seat = 1 THEN TxtSeat1 ELSE TxtSeat2>> >>

\* the states of the booking flow, from the one the book-a-seat button sets
PathStates == <<AWAITING_ROUTE>> \o FlowStates

RECURSIVE PathVisits(_, _, _, _)
\* handled one after the other from the sessions us, the messages of path
\* from the k-th on take the session of phone through the states of PathStates
PathVisits(us, phone, path, k) ==
    \/ k > Len(path)
    \/ LET after == Handled(us, phone, path[k])
       IN  /\ SessionView(after, phone)[1] = PathStates[k]
           /\ PathVisits(after, phone, path, k + 1)

(* C23: no dead ends.  In every reachable state some message takes the     *)
(* session to IDLE and some message is not ignored; and from IDLE the      *)
(* book-a-seat button followed by valid inputs for a listed trip with a    *)
(* free seat visits every state of the booking flow, one per message.      *)
NoDeadEnd ==
    \A phone \in Users :
        /\ \E m \in AllMessages :
              SessionView(Handled(user_sessions, phone, m), phone)[1] = IDLE
        /\ \E m \in AllMessages :
              SessionView(Handled(user_sessions, phone, m), phone)
                 # SessionView(user_sessions, phone)
        /\ StateOf(phone) = IDLE =>
              \A t \in Trips :
                 \A seat \in get_available_seats(bookings, t) :
                    seats_available[t] > 0 =>
                       PathVisits(user_sessions, phone, BookingPath(t, seat), 1)

\* a booking was made, the session is IDLE again and a trip is still open
IdleAgainTripOpen ==
    \E phone \in Users :
        /\ phone \in DOMAIN user_sessions
        /\ StateOf(phone) = IDLE
        /\ Quiet(phone)
        /\ bookings # EmptyDict
        /\ \E t \in Trips :
              seats_available[t] > 0 /\ get_available_seats(bookings, t) # {}

\* the seat numbers typed or picked in the model
SeatNumbers == 1 .. 3

SeatText(n) == IF n = 1 THEN TxtSeat1 ELSE IF n = 2 THEN TxtSeat2 ELSE TxtSeat3

\* the seat request was taken: the seat is in the draft and the summary with
\* price times seat count is on its way
SeatAccepted(seg, phone, n) ==
    /\ Get(seg.us[phone].booking_data, "selected_seats", {}) = {n}
    /\ seg.conts =
          {ContConfirmationShown(Get(DraftOf(phone), "price", 0))}

\* the seat request was turned down: state and draft are as before
SeatRejected(seg, phone) ==
    /\ seg.conts = {}
    /\ SessionView(seg.us, phone) = SessionView(user_sessions, phone)

(* C24: in AWAITING_SEAT a seat, typed or picked from a list, is accepted  *)
(* exactly when no pending or confirmed booking of the trip holds it, and  *)
(* rejected otherwise; the seats_available counter of the trip plays no    *)
(* part, whether it is 0 or positive.                                      *)
SeatAcceptedIffAvailable ==
    \A phone \in DOMAIN user_sessions :
        StateOf(phone) = AWAITING_SEAT /\ Has(DraftOf(phone), "date_id") =>
            LET t == DraftOf(phone)["date_id"]
            IN  \A n \in SeatNumbers :
                   \A m \in {<<"text", SeatText(n)>>,
                              <<"list_reply", <<"seat_", SeatText(n)>>>>} :
                      LET seg == handle_incoming_message(
                                    user_sessions, bookings, seats_available,
                                    phone, m, now)
                      IN  IF n \in AllSeats(t) \ HeldSeats(t)
                          THEN SeatAccepted(seg, phone, n)
                          ELSE SeatRejected(seg, phone)

\* a seat is asked for on a trip whose counter is 0 while a seat of it is free
SeatPromptCounterZero ==
    \E phone \in DOMAIN user_sessions :
        /\ StateOf(phone) = AWAITING_SEAT
        /\ Quiet(phone)
        /\ Has(DraftOf(phone), "date_id")
        /\ seats_available[DraftOf(phone)["date_id"]] = 0
        /\ AllSeats(DraftOf(phone)["date_id"])
              \ HeldSeats(DraftOf(phone)["date_id"]) # {}

(* C25: an image causes no state transition.  In every conversation state  *)
(* the image handler leaves every session as it was, state and draft, and  *)
(* suspends no session write; it has no access to bookings or counters.    *)
ImageChangesNothing ==
    \A phone \in Users :
        LET seg == handle_incoming_message(user_sessions, bookings,
                                           seats_available, phone,
                                           <<"image", "">>, now)
        IN  seg.us = user_sessions /\ seg.conts = {}

\* a conversation is under way, with a draft, when a photo can arrive
PhotoInConversation ==
    \E phone \in DOMAIN user_sessions :
        /\ StateOf(phone) = AWAITING_REG_NUMBER
        /\ Has(DraftOf(phone), "passenger_name")
        /\ ENABLED UserImage(phone)

\* the texts that are a phone number once spaces and dashes are removed
PhoneTexts == {text \in Texts : MatchesPhone(WithoutSeparators(text))}

\* the lookup handler, run on a phone number text, sets IDLE after its answer
\* and touches nothing else of the session
LookupSetsIdle ==
    \A phone \in Users :
        StateOf(phone) = AWAITING_BOOKING_PHONE =>
            \A text \in PhoneTexts :
                LET seg == handle_incoming_message(
                              user_sessions, bookings, seats_available, phone,
                              <<"text", text>>, now)
                IN  /\ seg.conts = {ContSetIdle}
                    /\ SessionView(Completed(seg, phone, now), phone)
                          = <<IDLE, DraftOf(phone)>>

\* the steps of a lookup leave bookings and counters as they were
LookupReadsOnly ==
    \A phone \in Users :
        /\ \A text \in PhoneTexts :
              StateOf(phone) = AWAITING_BOOKING_PHONE /\ TextMessage(phone, text)
              => UNCHANGED db
        /\ Resume(phone, ContSetIdle) => UNCHANGED db

(* C26: in AWAITING_BOOKING_PHONE a text that is a phone number once       *)
(* spaces and dashes are removed ends the lookup: set_state(IDLE) follows  *)
(* the result message, whether a booking was found or not, and leaves the  *)
(* session IDLE.  The lookup changes no booking and no seat counter.       *)
LookupEndsIdle == []LookupSetsIdle /\ [][LookupReadsOnly]_vars

\* a lookup that found a booking, and one that found none, are being answered
LookupAnswered(found) ==
    \E phone \in Users :
        /\ StateOf(phone) = AWAITING_BOOKING_PHONE
        /\ BagIn(ContSetIdle, pending[phone])
        /\ found = (get_booking_by_phone(
                       bookings, WithoutSeparators(TxtPhoneDashed)) # {})

LookupFoundBooking == LookupAnswered(TRUE)

\* booking b is in the table before and after the step with another status
StatusChanged(b) ==
    /\ b \in DOMAIN bookings /\ b \in DOMAIN bookings'
    /\ \/ bookings'[b].booking_status # bookings[b].booking_status
       \/ bookings'[b].payment_status # bookings[b].payment_status

(* C27: after its creation the booking_status and the payment_status of a  *)
(* booking change only in a step of the admin action update_booking_status *)
(* on that booking; no message, confirm or resumed handler of any user     *)
(* and no delete_booking changes them.                                     *)
StatusOnlyByAdmin ==
    [][\A b \in BookingIds :
          StatusChanged(b)
          => \E st \in StatusInputs : update_booking_status(b, st[1], st[2])]_vars

\* the admin has cancelled a booking while its user is in a new conversation
CancelledDuringConversation ==
    \E b \in DOMAIN bookings :
        /\ bookings[b].booking_status = "cancelled"
        /\ bookings[b].payment_status = "rejected"
        /\ \E phone \in DOMAIN user_sessions : StateOf(phone) = AWAITING_SEAT

\* a delete_booking step on booking_id that writes to bookings or counters
DeleteWrites(booking_id) ==
    /\ delete_booking(booking_id, TRUE)
    /\ bookings' # bookings \/ seats_available' # seats_available

(* C28: delete_booking on a booking_id that is not in the table, never     *)
(* created or already deleted, returns a failure and leaves the bookings   *)
(* and the seats_available counter of every trip unchanged.                *)
DeleteMissingChangesNothing ==
    \A booking_id \in BookingIds :
        booking_id \notin DOMAIN bookings =>
            /\ ENABLED delete_booking(booking_id, TRUE)
            /\ ~ENABLED DeleteWrites(booking_id)
            /\ \A rpc_raised \in BOOLEAN :
                  \A result \in delete_booking_result(bookings, booking_id,
                                                       rpc_raised) :
                      ~result.success

\* one booking was deleted, its id is gone, and another booking is in the table
DeletedIdAmongBookings ==
    \E booking_id \in BookingIds :
        /\ booking_id <= next_id
        /\ booking_id \notin DOMAIN bookings
        /\ bookings # EmptyDict

\* a confirm step of phone that writes to the database or changes the
\* state or the draft of the session
ConfirmWrites(phone) ==
    /\ ConfirmBooking(phone, TRUE)
    /\ \/ bookings' # bookings
       \/ seats_available' # seats_available
       \/ SessionView(user_sessions', phone) # SessionView(user_sessions, phone)

\* outside AWAITING_PAYMENT_CONFIRMATION the confirm button is taken, and
\* no step it can make writes anything
ConfirmElsewhereIgnored ==
    \A phone \in Users :
        StateOf(phone) # AWAITING_PAYMENT_CONFIRMATION =>
            ENABLED ConfirmBooking(phone, TRUE) /\ ~ENABLED ConfirmWrites(phone)

\* a step that adds a booking is the confirm of a user whose session is in
\* AWAITING_PAYMENT_CONFIRMATION
CreatedByConfirm ==
    DOMAIN bookings' \ DOMAIN bookings # {} =>
        \E phone \in Users :
            /\ StateOf(phone) = AWAITING_PAYMENT_CONFIRMATION
            /\ ConfirmBooking(phone, TRUE)

(* C29: a booking is created only by a confirm event received while the   *)
(* sender's session is in AWAITING_PAYMENT_CONFIRMATION; the confirm       *)
(* button in any other state creates no booking, changes no seat counter   *)
(* and leaves the state and the draft of the session as they were.         *)
OnlyConfirmCreates == []ConfirmElsewhereIgnored /\ [][CreatedByConfirm]_vars

\* the seat is in the draft and the summary is being sent: the confirm button
\* of an earlier summary would find a complete draft in AWAITING_SEAT
DraftCompleteBeforePrompt ==
    \E phone \in DOMAIN user_sessions :
        /\ StateOf(phone) = AWAITING_SEAT
        /\ Insertable(DraftOf(phone))
        /\ ~Quiet(phone)

(* C30: one completed draft yields at most one booking.  A confirm that is *)
(* delivered again while the handler of the first delivery is suspended    *)
(* creates no second booking and takes nothing more off the counter.       *)
(* (A second delivery after the first handler has ended finds the session  *)
(* IDLE; that case is the one of C29.)                                     *)
OneDraftOneBooking ==
    [][\A phone \in Customers :
          DuplicateConfirm(phone)
          => bookings' = bookings /\ seats_available' = seats_available]_vars

\* the fields create_booking takes from the draft; "route" stands for the
\* route endpoints from_location and to_location, written with it
BookingFields ==
    {"route", "date_id", "bus_id", "passenger_name", "student_id",
     "passenger_phone", "selected_seats", "total_amount"}

\* the draft has every field of a booking: one seat, and the price of the
\* selected trip as amount
DraftComplete(draft) ==
    /\ \A k \in BookingFields : Has(draft, k)
    /\ draft["date_id"] \in Trips
    /\ draft["bus_id"] = Buses[draft["date_id"]].id
    /\ Cardinality(draft["selected_seats"]) = 1
    /\ draft["selected_seats"] \subseteq AllSeats(draft["date_id"])
    /\ draft["total_amount"] = draft["price"]
    /\ draft["price"] = Buses[draft["date_id"]].price

(* C31: every booking created through the conversation is created from a  *)
(* draft with all fields populated: trip (date_id, bus_id), route          *)
(* endpoints, passenger_name, student_id, passenger_phone, exactly one     *)
(* selected seat of the trip, and total_amount equal to the trip's price.  *)
BookingFromCompleteDraft ==
    [][\A phone \in Users :
          /\ DOMAIN bookings' \ DOMAIN bookings # {}
          /\ ConfirmBooking(phone, TRUE)
          => DraftComplete(DraftOf(phone))]_vars

(* C32: whenever a session's state is IDLE and no handler of the user is   *)
(* suspended, the session's draft is empty.                                *)
IdleMeansEmptyDraft ==
    \A phone \in DOMAIN user_sessions :
        StateOf(phone) = IDLE /\ Quiet(phone) => DraftOf(phone) = EmptyDict

(* C33: a confirm event arriving more than 30 minutes after the user's     *)
(* last activity creates no booking and touches no counter: the session is *)
(* replaced by an idle one with an empty draft before the state check.     *)
ExpiredConfirmCreatesNothing ==
    [][\A phone \in Users : \A storage_fails \in BOOLEAN :
          Expired(phone) /\ ConfirmBooking(phone, storage_fails)
          => /\ bookings' = bookings
             /\ seats_available' = seats_available
             /\ StateAfter(phone) = IDLE
             /\ DraftAfter(phone) = EmptyDict]_vars

\* a complete draft waits for its confirmation and the user has been away
\* for more than 30 minutes
StaleDraftAtConfirmation ==
    \E phone \in DOMAIN user_sessions :
        /\ Expired(phone)
        /\ Quiet(phone)
        /\ StateOf(phone) = AWAITING_PAYMENT_CONFIRMATION
        /\ Insertable(DraftOf(phone))
        /\ ENABLED UserConfirm(phone, FALSE)

\* the step leaves the session of phone as it is: no session made, state,
\* draft and last_activity unchanged
SessionSame(phone) ==
    IF phone \in DOMAIN user_sessions
    THEN phone \in DOMAIN user_sessions'
         /\ user_sessions'[phone] = user_sessions[phone]
    ELSE phone \notin DOMAIN user_sessions'

(* C34: sessions are isolated per user: an event of one user (reset,       *)
(* expiry and booking confirmation included) never changes the state,      *)
(* draft or last_activity of another user's session.                       *)
SessionsIsolated ==
    [][\A b \in Users :
          SessionSame(b)
          \/ ~(\E a \in Users \ {b} : \E storage_fails \in BOOLEAN :
                  UserStep(a, storage_fails))]_vars

\* one user has written after the clock moved on while the other's session,
\* past its age, still holds its draft
NeighbourUntouched ==
    \E a \in DOMAIN user_sessions : \E b \in DOMAIN user_sessions \ {a} :
        /\ now > SESSION_EXPIRY_MINUTES
        /\ user_sessions[a].last_activity = now
        /\ bookings # EmptyDict
        /\ Expired(b)
        /\ DraftOf(b) # EmptyDict

\* the states whose prompt asks for no text
NoTextStates ==
    {IDLE, AWAITING_ROUTE, AWAITING_DATE, AWAITING_PAYMENT_CONFIRMATION}

(* C35: free text that is no reset keyword, received in a state with no    *)
(* text input (IDLE, AWAITING_ROUTE, AWAITING_DATE,                        *)
(* AWAITING_PAYMENT_CONFIRMATION), changes nothing: state and draft of the *)
(* session stay, no handler is left waiting, and bookings and counters are *)
(* untouched.                                                              *)
FreeTextChangesNothing ==
    \A phone \in DOMAIN user_sessions : \A text \in PlainTexts :
        StateOf(phone) \in NoTextStates
        => ~ENABLED (/\ TextMessage(phone, text)
                     /\ \/ StateAfter(phone) # StateOf(phone)
                        \/ DraftAfter(phone) # DraftOf(phone)
                        \/ pending' # pending
                        \/ db' # db)

\* a name is typed while the confirmation of a complete draft is awaited
FreeTextAtConfirmation ==
    \E phone \in DOMAIN user_sessions :
        /\ Quiet(phone)
        /\ StateOf(phone) = AWAITING_PAYMENT_CONFIRMATION
        /\ Insertable(DraftOf(phone))
        /\ ENABLED TextMessage(phone, TxtAliKhan)

-----------------------------------------------------------------------------
(* main.py webhook_handler, several messages per delivery                  *)

ConfirmMessage == <<"button_reply", <<"confirm_booking", "">>>>

\* the branch of the message loop that ends in "return JSONResponse"
LoopReturns(us, phone, message) ==
    /\ message = ConfirmMessage
    /\ get_state(us, phone, now) = AWAITING_PAYMENT_CONFIRMATION

\* one pass of the message loop that does not return: the handler of the
\* message is awaited to its end; get_state is called for a confirm button
HandledInLoop(us, phone, message) ==
    IF message = ConfirmMessage
    THEN Handled(get_session(us, phone, now), phone, message)
    ELSE Handled(us, phone, message)

\* the sessions when the loop comes to message k
RECURSIVE SessionsAt(_, _, _, _)
SessionsAt(us, phone, messages, k) ==
    IF k = 1
    THEN us
    ELSE HandledInLoop(SessionsAt(us, phone, messages, k - 1), phone,
                       messages[k - 1])

\* the last message of the delivery the loop comes to: the first at which it
\* returns, or the last of the delivery
LastHandled(us, phone, messages) ==
    LET returns == {k \in 1 .. Len(messages) :
                      LoopReturns(SessionsAt(us, phone, messages, k), phone,
                                  messages[k])}
    IN  IF returns = {}
        THEN Len(messages)
        ELSE CHOOSE k \in returns : \A j \in returns : k <= j

\* webhook_handler for one delivery with the messages of one sender
Deliver(phone, messages, storage_fails) ==
    LET n == LastHandled(user_sessions, phone, messages)
        us == SessionsAt(user_sessions, phone, messages, n)
    IN  /\ IF LoopReturns(us, phone, messages[n])
           THEN process_booking_confirmation(
                   phone, get_session(us, phone, now), storage_fails)
           ELSE /\ Commit(phone,
                          IF messages[n] = ConfirmMessage
                          THEN Segment(get_session(us, phone, now), {})
                          ELSE handle_incoming_message(
                                  us, bookings, seats_available, phone,
                                  messages[n], now))
                /\ UNCHANGED db
        /\ UNCHANGED now

\* the deliveries a user can cause from what is on the screen
Deliveries(phone) ==
    UNION {[1 .. n -> Offered(phone) \cup {ConfirmMessage}] : n \in 1 .. MaxDelivery}

UserDelivery(phone, storage_fails) ==
    /\ Quiet(phone)
    /\ \E messages \in Deliveries(phone) : Deliver(phone, messages, storage_fails)

NextDeliveries ==
    \E phone \in Customers :
        \/ UserDelivery(phone, FALSE)
        \/ UserResume(phone)

SpecDeliveries == Init /\ [][NextDeliveries]_vars

(* C36: every message contained in one webhook delivery is processed, in   *)
(* delivery order: the message loop comes to the last message of every     *)
(* delivery, also when an earlier message of it is a booking confirmation. *)
EveryMessageProcessed ==
    \A phone \in DOMAIN user_sessions :
        Quiet(phone)
        => \A messages \in Deliveries(phone) :
              LastHandled(user_sessions, phone, messages) = Len(messages)

\* bookings the step deletes
Deleted == DOMAIN bookings \ DOMAIN bookings'

\* the counter of trip t goes up in the step only with the deletion of a
\* booking of t, by the number of seats of that booking
RaisedByDeletion(t) ==
    \/ seats_available'[t] <= seats_available[t]
    \/ \E b \in Deleted :
          /\ bookings[b].date_id = t
          /\ seats_available'[t] - seats_available[t]
                = Cardinality(bookings[b].selected_seats)

\* a seat of a pending or confirmed booking b that is available after the
\* step: b was deleted or cancelled in the step
ReleasedByAdmin(b) ==
    \/ bookings[b].booking_status = "cancelled"
    \/ bookings[b].selected_seats
          \cap get_available_seats(bookings', bookings[b].date_id) = {}
    \/ b \in Deleted
    \/ bookings'[b].booking_status = "cancelled"

(* C37: the seats_available counter of a trip increases only as part of    *)
(* delete_booking of a booking on that trip, by exactly that booking's     *)
(* seat count; and a seat held by a non-cancelled booking stays out of     *)
(* the available seats until that booking is deleted or its booking_status *)
(* is set to cancelled.                                                    *)
SeatsReleasedOnlyByAdmin ==
    [][/\ \A t \in Trips : RaisedByDeletion(t)
       /\ \A b \in DOMAIN bookings : ReleasedByAdmin(b)
       /\ \A b \in DOMAIN bookings' :
             bookings'[b].booking_status = "cancelled"
             \/ bookings'[b].selected_seats
                   \cap get_available_seats(bookings', bookings'[b].date_id) = {}
      ]_vars

\* a deletion has raised a counter while another booking still holds a seat
\* and a cancelled booking's seat is available again
CounterRaisedSeatHeld ==
    /\ \E b \in DOMAIN restored : restored[b] = 1
    /\ \E b \in DOMAIN bookings : bookings[b].booking_status = "confirmed"
    /\ \E t \in Trips : seats_available[t] < total_seats(t)

=============================================================================
